---- MODULE Spec2Model ----
(***************************************************************************)
(* A model of the availability-checker backend: the Schedule table and the *)
(* availability decision (get_availability_service.py), and the AuthToken  *)
(* table with the refresh-token rotation (refresh_token_service.py).       *)
(*                                                                         *)
(* Spec runs the schedule services against the Schedule table; its clock   *)
(* `now` counts ticks of SecondsPerTick seconds.  AuthSpec runs the token  *)
(* services against the AuthToken table, the requests interleaving at      *)
(* their awaits; SeqAuthSpec serves the same requests one after the other. *)
(* Their clock `utcnow` counts whole seconds, the resolution of the "exp"  *)
(* claim of the tokens the service issues.                                 *)
(*                                                                         *)
(* UserSpec runs login_user and update_user against the User and Profile   *)
(* tables, DeleteSpec runs delete_schedule and remove_integration,         *)
(* ReportSpec runs generate_report, and ServerSpec runs the handlers of    *)
(* server.py around their services, the persistence gateway failing or not.*)
(*                                                                         *)
(* ScheduleSpec runs the services that write Schedule rows together with   *)
(* get_availability, ReadSpec runs get_schedule, get_report and            *)
(* get_user_profile, LogoutSpec runs logout_user among the refresh_token   *)
(* requests, interleaving at their awaits, and NotifySpec runs             *)
(* send_notification.                                                      *)
(***************************************************************************)
EXTENDS Integers, Sequences, FiniteSets, TLC

\* ---------------------------------------------------------------- bounds
MaxNow == 1             \* the schedule clock runs over 0..MaxNow ticks
SecondsPerTick == 40    \* the length of one tick of the schedule clock

Users == {"u1", "u2"}
ScheduleIds == {1, 2, 3}
Times == {0, 1, 2}      \* the instants (in ticks) a request may name

None == 0               \* Python's None for an optional row

VARIABLES
    schedules,          \* the Schedule table: id -> row, with its linked Appointment count
    now,                \* datetime.now(timezone.utc), in ticks
    resp,               \* the response of the request handled last
    authTokens,         \* the AuthToken table: id -> row
    utcnow,             \* datetime.utcnow(), in whole seconds
    requests,           \* the token requests in flight: where each stands, and its locals
    rotated,            \* history: the token values that successful refreshes presented
    users,              \* the User table: id -> row
    profiles,           \* the Profile table: userId -> row
    integrations,       \* the Integration table: id -> row
    reports,            \* the Report table: id -> row
    out,                \* what the service called last returned or raised
    http                \* what the HTTP handler called last produced

schedVars == <<schedules, now, resp>>

authVars == <<authTokens, utcnow, requests, rotated>>

crudVars == <<users, profiles, integrations, reports, out, http>>

vars == <<schedules, now, resp, authTokens, utcnow, requests, rotated,
          users, profiles, integrations, reports, out, http>>

\* A Schedule row as get_availability reads it (include={"Appointment": True}).
ScheduleRow ==
    [userId : Users, startTime : Times, endTime : Times,
     available : BOOLEAN, Appointment : {0, 1}]

NoResp == [op |-> "none"]

\* The tables and outcomes a specification does not exercise.
CrudIdle ==
    /\ users = <<>>
    /\ profiles = <<>>
    /\ integrations = <<>>
    /\ reports = <<>>
    /\ out = NoResp
    /\ http = NoResp

\* The Schedule table when the service starts: empty, or one row that some
\* Appointment is linked to (no service of the repository writes Appointments).
InitialSchedules ==
    {<<>>} \cup {[i \in {1} |-> r] : r \in {x \in ScheduleRow : x.Appointment = 1}}

Init ==
    /\ schedules \in InitialSchedules
    /\ now = 0
    /\ resp = NoResp
    /\ authTokens = <<>>
    /\ utcnow = 0
    /\ requests = <<>>
    /\ rotated = {}
    /\ CrudIdle

\* ------------------------------------------------------- create_schedule
create_schedule(userId, startTime, endTime, available) ==
    /\ \E id \in ScheduleIds \ DOMAIN schedules :
         /\ schedules' =
              [i \in DOMAIN schedules \cup {id} |->
                 IF i = id
                   THEN [userId |-> userId, startTime |-> startTime,
                         endTime |-> endTime, available |-> available,
                         Appointment |-> 0]
                   ELSE schedules[i]]
         /\ resp' = [op |-> "create_schedule", status |-> "Success"]
    /\ UNCHANGED <<now, authVars, crudVars>>

\* ------------------------------------------------------ get_availability
\* where={"userId": userId, "startTime": {"lte": now}, "endTime": {"gte": now}}
CurrentSchedules_strictEnd(userId) ==
    {i \in DOMAIN schedules : /\ schedules[i].userId = userId
                              /\ schedules[i].startTime <= now
                              /\ schedules[i].endTime > now}

CurrentSchedules(userId) ==
    {i \in DOMAIN schedules : /\ schedules[i].userId = userId
                              /\ schedules[i].startTime <= now
                              /\ schedules[i].endTime >= now}

\* find_first with no order: any matching row, or None.
FindCurrent(userId) ==
    IF CurrentSchedules(userId) = {} THEN {None} ELSE CurrentSchedules(userId)

\* current_schedule.available and (not current_schedule.Appointment)
Free_ignoresAppointment(s) == s.available

Free(s) == s.available /\ s.Appointment = 0

\* where={"userId": userId, "startTime": {"gt": now}, "available": True}
NextCandidates_gte(userId) ==
    {i \in DOMAIN schedules : /\ schedules[i].userId = userId
                              /\ schedules[i].startTime >= now
                              /\ schedules[i].available}

NextCandidates(userId) ==
    {i \in DOMAIN schedules : /\ schedules[i].userId = userId
                              /\ schedules[i].startTime > now
                              /\ schedules[i].available}

\* order={"startTime": "asc"}, find_first: a row of least startTime, or None.
FindNext_desc(userId) ==
    IF NextCandidates(userId) = {} THEN {None}
    ELSE {i \in NextCandidates(userId) :
            \A j \in NextCandidates(userId) :
               schedules[i].startTime >= schedules[j].startTime}

FindNext(userId) ==
    IF NextCandidates(userId) = {} THEN {None}
    ELSE {i \in NextCandidates(userId) :
            \A j \in NextCandidates(userId) :
               schedules[i].startTime <= schedules[j].startTime}

\* int(x / d): Python's int() truncates toward zero.
IntTrunc(n, d) == IF n >= 0 THEN n \div d ELSE -((-n) \div d)

\* int(time_until_next / 60), time_until_next in seconds
MinutesUntil_rounds(seconds) == IntTrunc(seconds + 30, 60)

MinutesUntil(seconds) == IntTrunc(seconds, 60)

\* startTime.strftime('%Y-%m-%d %H:%M'): the instant cut to its minute.
Strftime(t) == (t * SecondsPerTick) \div 60

AvailableResponse(userId, cur) ==
    [op |-> "get_availability", userId |-> userId, isAvailable |-> TRUE,
     message |-> <<"Available">>, timeUntilNextAvailability |-> <<>>,
     cur |-> cur, next |-> None]

UnavailableUntilResponse(userId, cur, next) ==
    [op |-> "get_availability", userId |-> userId, isAvailable |-> FALSE,
     message |-> <<"Unavailable until", Strftime(schedules[next].startTime)>>,
     timeUntilNextAvailability |->
        <<MinutesUntil((schedules[next].startTime - now) * SecondsPerTick)>>,
     cur |-> cur, next |-> next]

NoMoreResponse(userId, cur) ==
    [op |-> "get_availability", userId |-> userId, isAvailable |-> FALSE,
     message |-> <<"No more available schedules today">>,
     timeUntilNextAvailability |-> <<>>, cur |-> cur, next |-> None]

NoCurrentResponse_searches(userId) ==
    IF NextCandidates(userId) = {}
      THEN [op |-> "get_availability", userId |-> userId, isAvailable |-> FALSE,
            message |-> <<"No current schedules found">>,
            timeUntilNextAvailability |-> <<>>, cur |-> None, next |-> None]
      ELSE UnavailableUntilResponse(userId, None, CHOOSE i \in FindNext(userId) : TRUE)

NoCurrentResponse(userId) ==
    [op |-> "get_availability", userId |-> userId, isAvailable |-> FALSE,
     message |-> <<"No current schedules found">>,
     timeUntilNextAvailability |-> <<>>, cur |-> None, next |-> None]

\* The whole handler: the lookup of the current schedule, the decision, and
\* (only on the else branch) the forward search.
get_availability_marks(userId) ==
    /\ \E cur \in FindCurrent(userId) :
         IF cur # None
           THEN /\ resp' = NoMoreResponse(userId, cur)
                /\ schedules' = [schedules EXCEPT ![cur].available = FALSE]
           ELSE /\ resp' = NoCurrentResponse(userId)
                /\ schedules' = schedules
    /\ UNCHANGED <<now, authVars, crudVars>>

get_availability(userId) ==
    /\ \E cur \in FindCurrent(userId) :
         IF cur # None
           THEN IF Free(schedules[cur])
                  THEN resp' = AvailableResponse(userId, cur)
                  ELSE \E next \in FindNext(userId) :
                         IF next # None
                           THEN resp' = UnavailableUntilResponse(userId, cur, next)
                           ELSE resp' = NoMoreResponse(userId, cur)
           ELSE resp' = NoCurrentResponse(userId)
    /\ UNCHANGED <<schedules, now, authVars, crudVars>>

\* Time passes between two requests.
Tick ==
    /\ now < MaxNow
    /\ now' = now + 1
    /\ resp' = NoResp
    /\ UNCHANGED <<schedules, authVars, crudVars>>

Next ==
    \/ \E u \in Users, s \in Times, e \in Times, a \in BOOLEAN :
          create_schedule(u, s, e, a)
    \/ \E u \in Users : get_availability(u)
    \/ Tick

Spec == Init /\ [][Next]_vars

\* ================================================================= tokens
MaxUtcNow == 1          \* the token clock runs over 0..MaxUtcNow seconds
MaxRequests == 3        \* the refresh_token requests of one run

REFRESH_TOKEN_EXPIRE_DAYS == 30

TokenIds == {1, 2}
Requests == 1..MaxRequests

\* timedelta(days=30), in seconds
RefreshLifetime == REFRESH_TOKEN_EXPIRE_DAYS * 86400

\* jwt.encode({"sub": sub, "exp": exp}, SECRET_KEY, algorithm=ALGORITHM): with
\* the key and the algorithm fixed, the token is a function of the subject and
\* of the expiry, which the "exp" claim carries in whole seconds.
jwt_encode(sub, exp) == <<sub, exp>>

\* A token some earlier login or refresh stored: the value is opaque here.
SeedToken(i) == <<"seed", i>>

NoToken == <<"", 0>>

UnknownToken == <<"unknown", 0>>

\* The token values a client may present: one a row holds, one that was
\* rotated away, or one the service never stored.
TokenValues ==
    {authTokens[i].token : i \in DOMAIN authTokens} \cup rotated \cup {UnknownToken}

\* The AuthToken table when the service starts: token is a unique column.
InitialAuthTokens ==
    UNION {[ids -> [token : {NoToken}, expiryDate : {0, RefreshLifetime}, userId : Users]]
             : ids \in SUBSET TokenIds}

Seeded(store) == [i \in DOMAIN store |-> [store[i] EXCEPT !.token = SeedToken(i)]]

Idle ==
    [pc |-> "idle", refresh_token |-> NoToken, auth_token |-> None,
     new_refresh_token |-> NoToken, refresh_token_expires |-> 0,
     result |-> "none",
     stale |-> FALSE,       \* history: the token presented had been rotated away before
     overtaken |-> FALSE]   \* history: the row no longer held the token presented when written

AuthInit ==
    /\ schedules = <<>>
    /\ now = 0
    /\ resp = NoResp
    /\ authTokens \in {Seeded(st) : st \in InitialAuthTokens}
    /\ utcnow = 0
    /\ requests = [p \in Requests |-> Idle]
    /\ rotated = {}
    /\ CrudIdle

\* find_unique(where={"token": refresh_token}): the row, or None.
FindToken(t) ==
    IF \E i \in DOMAIN authTokens : authTokens[i].token = t
      THEN CHOOSE i \in DOMAIN authTokens : authTokens[i].token = t
      ELSE None

\* datetime.utcnow() > auth_token.expiryDate
Expired_never(expiryDate) == FALSE

Expired(expiryDate) == utcnow > expiryDate

\* refresh_token up to its second await: the lookup, the validity check, and
\* the two tokens it encodes.
refresh_token_find(p, t) ==
    /\ requests[p].pc = "idle"
    /\ \A q \in Requests : q < p => requests[q].pc # "idle"   \* numbered as they arrive
    /\ LET auth_token == FindToken(t) IN
         IF auth_token = None \/ Expired(authTokens[auth_token].expiryDate)
           THEN requests' = [requests EXCEPT ![p] =
                   [@ EXCEPT !.pc = "done", !.refresh_token = t,
                             !.result = "ValueError", !.stale = t \in rotated]]
           ELSE requests' = [requests EXCEPT ![p] =
                   [@ EXCEPT !.pc = "update", !.refresh_token = t,
                             !.auth_token = auth_token,
                             !.refresh_token_expires = utcnow + RefreshLifetime,
                             !.new_refresh_token =
                                 jwt_encode(authTokens[auth_token].userId,
                                            utcnow + RefreshLifetime),
                             !.stale = t \in rotated]]
    /\ UNCHANGED <<schedVars, authTokens, utcnow, rotated, crudVars>>

\* data={"token": new_refresh_token, "expiryDate": refresh_token_expires}
RotatedRow_keepsExpiry(row, token, expiryDate) == [row EXCEPT !.token = token]

RotatedRow(row, token, expiryDate) ==
    [row EXCEPT !.token = token, !.expiryDate = expiryDate]

\* update(where={"id": auth_token.id}, data={...}) and the response.  The
\* update is keyed by the id alone; a second row with the new token value
\* breaks the unique column and the call raises.
refresh_token_update(p) ==
    /\ requests[p].pc = "update"
    /\ LET id == requests[p].auth_token
           new == requests[p].new_refresh_token
       IN  IF \E j \in DOMAIN authTokens : j # id /\ authTokens[j].token = new
             THEN /\ requests' = [requests EXCEPT ![p] =
                        [@ EXCEPT !.pc = "done", !.result = "UniqueViolationError",
                                  !.overtaken =
                                     (id \in DOMAIN authTokens
                                        /\ authTokens[id].token # requests[p].refresh_token)]]
                  /\ UNCHANGED <<authTokens, rotated>>
             ELSE /\ authTokens' =
                        IF id \in DOMAIN authTokens
                          THEN [authTokens EXCEPT ![id] =
                                  RotatedRow(@, new, requests[p].refresh_token_expires)]
                          ELSE authTokens
                  /\ requests' = [requests EXCEPT ![p] =
                        [@ EXCEPT !.pc = "done", !.result = "ok",
                                  !.overtaken =
                                     (id \in DOMAIN authTokens
                                        /\ authTokens[id].token # requests[p].refresh_token)]]
                  /\ rotated' = rotated \cup {requests[p].refresh_token}
    /\ UNCHANGED <<schedVars, utcnow, crudVars>>

\* ------------------------------------------------------------ logout_user
\* delete_many(where={"token": token}): the table without the matching rows.
DeleteMany_wholeUser(store, token) ==
    LET gone == {i \in DOMAIN store :
                   \E j \in DOMAIN store :
                      store[j].token = token /\ store[i].userId = store[j].userId}
    IN  [i \in DOMAIN store \ gone |-> store[i]]

DeleteMany(store, token) ==
    [i \in {j \in DOMAIN store : store[j].token # token} |-> store[i]]

\* The handler has one await: it runs in one step.
logout_user(token) ==
    /\ authTokens' = DeleteMany(authTokens, token)
    /\ resp' = [op |-> "logout_user", message |-> "User successfully logged out."]
    /\ UNCHANGED <<schedules, now, utcnow, requests, rotated, crudVars>>

\* A second passes.
AuthTick ==
    /\ utcnow < MaxUtcNow
    /\ utcnow' = utcnow + 1
    /\ UNCHANGED <<schedVars, authTokens, requests, rotated, crudVars>>

\* The requests are served concurrently: every await is a point where another
\* request may run.
AuthNext ==
    \/ \E p \in Requests, t \in TokenValues : refresh_token_find(p, t)
    \/ \E p \in Requests : refresh_token_update(p)
    \/ \E t \in TokenValues : logout_user(t)
    \/ AuthTick

AuthSpec == AuthInit /\ [][AuthNext]_vars

\* The same requests served one after the other: a request starts only when no
\* other is in flight.
NoneInFlight == \A q \in Requests : requests[q].pc # "update"

SeqAuthNext ==
    \/ \E p \in Requests, t \in TokenValues : NoneInFlight /\ refresh_token_find(p, t)
    \/ \E p \in Requests : refresh_token_update(p)
    \/ \E t \in TokenValues : NoneInFlight /\ logout_user(t)
    \/ AuthTick

SeqAuthSpec == AuthInit /\ [][SeqAuthNext]_vars

\* ================================================================== users
Emails == {"a@x", "b@x"}
Passwords == {"pw1", "pw2"}
FirstNames == {"", "Zoe"}   \* the first names an update may carry; "" is a str, not None
LastNames == {"Poe"}        \* the last names an update may carry
NewRoles == {"Administrator"}   \* the roles an update may carry

Absent == "<None>"      \* Python's None where a str or a row key is expected

\* The outcome of a service call: the value it returned, or what it raised.
Returned(op, args, value) ==
    [op |-> op, args |-> args, raised |-> "none", message |-> "", value |-> value]

Raised(op, args, kind, message) ==
    [op |-> op, args |-> args, raised |-> kind, message |-> message, value |-> <<>>]

\* bcrypt: the stored hash carries its salt, and checkpw hashes the candidate
\* with that salt and compares.
bcrypt_hashpw(password, salt) == <<"$2b$", salt, password>>

bcrypt_checkpw(password, hashed_password) ==
    bcrypt_hashpw(password, hashed_password[2]) = hashed_password

\* A User row as the services read it: the password column holds the hash of
\* the password the account was created with.
UserRow ==
    [email : Emails, password : {bcrypt_hashpw("pw1", "salt")},
     role : {"Professional"}]

\* The User table when the service starts: email is a unique column.
InitialUsers ==
    {t \in UNION {[ids -> UserRow] : ids \in {{}, {"u1"}, {"u1", "u2"}}} :
        \A i, j \in DOMAIN t : i # j => t[i].email # t[j].email}

\* The Profile table when the service starts: a user has a Profile or has none.
InitialProfiles(t) ==
    UNION {[ids -> {[firstName |-> "Ann", lastName |-> "Lee"]}] : ids \in SUBSET DOMAIN t}

UserInit ==
    /\ schedules = <<>>
    /\ now = 0
    /\ resp = NoResp
    /\ authTokens = <<>>
    /\ utcnow = 0
    /\ requests = <<>>
    /\ rotated = {}
    /\ users \in InitialUsers
    /\ profiles \in InitialProfiles(users)
    /\ integrations = <<>>
    /\ reports = <<>>
    /\ out = NoResp
    /\ http = NoResp

\* ------------------------------------------------------------- login_user
ACCESS_TOKEN_EXPIRE_MINUTES == 30

\* find_unique(where={"email": email}): the row's id, or None.
FindUserByEmail(email) ==
    IF \E i \in DOMAIN users : users[i].email = email
      THEN CHOOSE i \in DOMAIN users : users[i].email = email
      ELSE Absent

\* raise Exception("Invalid login credentials."): the one raise both failures reach.
LoginFailure_enumerates(email, password, user) ==
    IF user = Absent
      THEN Raised("login_user", <<email, password>>, "Exception", "User not found.")
      ELSE Raised("login_user", <<email, password>>, "Exception",
                  "Invalid login credentials.")

LoginFailure(email, password, user) ==
    Raised("login_user", <<email, password>>, "Exception", "Invalid login credentials.")

login_outcome(email, password) ==
    LET user == FindUserByEmail(email) IN
      IF user # Absent /\ bcrypt_checkpw(password, users[user].password)
        THEN Returned("login_user", <<email, password>>,
                      [token |-> jwt_encode(users[user].email,
                                            utcnow + ACCESS_TOKEN_EXPIRE_MINUTES * 60),
                       expires_in |-> ACCESS_TOKEN_EXPIRE_MINUTES * 60])
        ELSE LoginFailure(email, password, user)

login_user(email, password) ==
    /\ out' = login_outcome(email, password)
    /\ UNCHANGED <<schedVars, authVars, users, profiles, integrations, reports, http>>

\* ------------------------------------------------------------ update_user
\* update_payload: the User columns the call sets.
UserPatch(row, email, role) ==
    [row EXCEPT !.email = IF email # Absent THEN email ELSE @,
                !.role = IF role # Absent THEN role ELSE @]

\* profile_payload: the Profile columns the call sets.
ProfilePatch(row, firstName, lastName) ==
    [row EXCEPT !.firstName = IF firstName # Absent THEN firstName ELSE @,
                !.lastName = IF lastName # Absent THEN lastName ELSE @]

\* `if firstName or lastName`: a str is true when it is neither None nor empty.
ProfileTouched_notNone(firstName, lastName) == firstName # Absent \/ lastName # Absent

ProfileTouched(firstName, lastName) ==
    (firstName # Absent /\ firstName # "") \/ (lastName # Absent /\ lastName # "")

\* The Profile table after the first half of the call: the row is patched when
\* the call names a name and the user has a Profile.
ProfilesAfter_lastNameToo(id, firstName, lastName) ==
    IF ProfileTouched(firstName, lastName) /\ id \in DOMAIN profiles
      THEN [profiles EXCEPT ![id] =
              [firstName |-> IF firstName # Absent THEN firstName ELSE @.firstName,
               lastName |-> IF lastName # Absent THEN lastName ELSE ""]]
      ELSE profiles

ProfilesAfter(id, firstName, lastName) ==
    IF ProfileTouched(firstName, lastName) /\ id \in DOMAIN profiles
      THEN [profiles EXCEPT ![id] = ProfilePatch(@, firstName, lastName)]
      ELSE profiles

UpdateUserProfileResponse(id, user, firstName, lastName) ==
    [id |-> id, email |-> user.email, firstName |-> firstName,
     lastName |-> lastName, role |-> user.role,
     updateStatus |-> "User profile successfully updated."]

\* The whole call.  User.update returns None for an id that matches no row
\* and raises when the new email is another user's; find_unique returns None
\* for a missing row, and reading user.id of None raises.
update_user(id, email, firstName, lastName, role) ==
    LET args == <<id, email, firstName, lastName, role>> IN
    /\ profiles' = ProfilesAfter(id, firstName, lastName)
    /\ IF id \notin DOMAIN users
         THEN /\ users' = users
              /\ out' = Raised("update_user", args, "AttributeError",
                               "'NoneType' object has no attribute 'id'")
         ELSE IF email # Absent /\ \E j \in DOMAIN users : j # id /\ users[j].email = email
           THEN /\ users' = users
                /\ out' = Raised("update_user", args, "UniqueViolationError",
                                 "Unique constraint failed on the fields: (email)")
           ELSE /\ users' = [users EXCEPT ![id] = UserPatch(@, email, role)]
                /\ out' = Returned("update_user", args,
                             UpdateUserProfileResponse(id, UserPatch(users[id], email, role),
                                                       firstName, lastName))
    /\ UNCHANGED <<schedVars, authVars, integrations, reports, http>>

UserNext ==
    \/ \E e \in Emails, pw \in Passwords : login_user(e, pw)
    \/ \E id \in Users, e \in Emails \cup {Absent}, f \in FirstNames \cup {Absent},
          l \in LastNames \cup {Absent}, r \in NewRoles \cup {Absent} :
          update_user(id, e, f, l, r)

UserSpec == UserInit /\ [][UserNext]_vars

\* =============================================================== deletions
IntegrationIds == {1, 2}

\* The Integration table when the service starts.
InitialIntegrations ==
    UNION {[ids -> [userId : Users, service : {"calendar"}]] : ids \in SUBSET IntegrationIds}

DeleteInit ==
    /\ schedules \in InitialSchedules
    /\ now = 0
    /\ resp = NoResp
    /\ authTokens = <<>>
    /\ utcnow = 0
    /\ requests = <<>>
    /\ rotated = {}
    /\ users = <<>>
    /\ profiles = <<>>
    /\ integrations \in InitialIntegrations
    /\ reports = <<>>
    /\ out = NoResp
    /\ http = NoResp

\* delete(where={"id": id}): the table without the row; a table that has no
\* such row is left as it is and the call returns None.
Delete(table, id) == [i \in DOMAIN table \ {id} |-> table[i]]

\* delete_schedule looks the row up first and catches whatever the gateway
\* raises; `fails` says that the gateway raises during the call.
delete_schedule(id, fails) ==
    /\ IF fails
         THEN /\ schedules' = schedules
              /\ out' = Returned("delete_schedule", <<id>>,
                                 [success |-> FALSE, message |-> "PersistenceError"])
         ELSE IF id \in DOMAIN schedules
           THEN /\ schedules' = Delete(schedules, id)
                /\ out' = Returned("delete_schedule", <<id>>,
                             [success |-> TRUE, message |-> "Schedule deleted successfully"])
           ELSE /\ schedules' = schedules
                /\ out' = Returned("delete_schedule", <<id>>,
                             [success |-> FALSE, message |-> "Schedule not found"])
    /\ UNCHANGED <<now, resp, authVars, users, profiles, integrations, reports, http>>

\* remove_integration deletes without a lookup and without a try.
remove_integration(id, fails) ==
    /\ IF fails
         THEN /\ integrations' = integrations
              /\ out' = Raised("remove_integration", <<id>>, "PersistenceError", "")
         ELSE /\ integrations' = Delete(integrations, id)
              /\ out' = Returned("remove_integration", <<id>>,
                                 [message |-> "Integration successfully removed."])
    /\ UNCHANGED <<schedVars, authVars, users, profiles, reports, http>>

DeleteNext ==
    \/ \E id \in ScheduleIds, fails \in BOOLEAN : delete_schedule(id, fails)
    \/ \E id \in IntegrationIds, fails \in BOOLEAN : remove_integration(id, fails)

DeleteSpec == DeleteInit /\ [][DeleteNext]_vars

\* ================================================================= reports
MaxReports == 1         \* the Report rows one run may create

ReportIds == 1..MaxReports

\* prisma.enums.ReportType.__members__, as the docstring of generate_report
\* lists them.
ReportTypeMembers == {"Activity", "SystemUsage", "Compliance"}

\* The report types a request may name: members, and a name in the wrong case.
ReportTypeInputs == ReportTypeMembers \cup {"activity"}

\* A date string is modelled by its fields between the '-' signs, each field
\* the sequence of its characters.
LeapDay == << <<"2","0","2","4">>, <<"0","2">>, <<"2","9">> >>      \* "2024-02-29"
Unpadded == << <<"2","0","2","4">>, <<"3">>, <<"5">> >>             \* "2024-3-5"
NoSuchDay == << <<"2","0","2","3">>, <<"0","2">>, <<"2","9">> >>    \* "2023-02-29"
ShortYear == << <<"2","4">>, <<"0","2">>, <<"1","1">> >>            \* "24-02-11"
NotADate == << <<"s","o","o","n">> >>                               \* "soon"

DateStrings == {LeapDay, Unpadded, NoSuchDay, ShortYear, NotADate}

Digits == {"0", "1", "2", "3", "4", "5", "6", "7", "8", "9"}

DigitValue(c) ==
    CASE c = "0" -> 0 [] c = "1" -> 1 [] c = "2" -> 2 [] c = "3" -> 3 [] c = "4" -> 4
      [] c = "5" -> 5 [] c = "6" -> 6 [] c = "7" -> 7 [] c = "8" -> 8 [] c = "9" -> 9

AllDigits(field) == \A k \in 1..Len(field) : field[k] \in Digits

RECURSIVE NumberOf(_)
NumberOf(field) ==
    IF field = <<>> THEN 0
    ELSE 10 * NumberOf(SubSeq(field, 1, Len(field) - 1)) + DigitValue(field[Len(field)])

IsLeap(y) == (y % 4 = 0 /\ y % 100 # 0) \/ y % 400 = 0

DaysInMonth(y, m) ==
    IF m = 2 THEN (IF IsLeap(y) THEN 29 ELSE 28)
    ELSE IF m \in {4, 6, 9, 11} THEN 30 ELSE 31

\* datetime.strptime(text, "%Y-%m-%d"): %Y is four digits, %m one or two
\* digits for 1..12, %d one or two digits for 1..31, and the date they name
\* must exist.  The value is <<year, month, day>>, or "ValueError".
strptime_noDayCheck(text) ==
    IF /\ Len(text) = 3
       /\ \A k \in 1..3 : AllDigits(text[k])
       /\ Len(text[1]) = 4 /\ NumberOf(text[1]) >= 1
       /\ Len(text[2]) \in {1, 2} /\ NumberOf(text[2]) \in 1..12
       /\ Len(text[3]) \in {1, 2} /\ NumberOf(text[3]) \in 1..31
      THEN <<NumberOf(text[1]), NumberOf(text[2]), NumberOf(text[3])>>
      ELSE <<"ValueError">>

strptime(text) ==
    IF /\ Len(text) = 3
       /\ \A k \in 1..3 : AllDigits(text[k])
       /\ Len(text[1]) = 4 /\ NumberOf(text[1]) >= 1
       /\ Len(text[2]) \in {1, 2} /\ NumberOf(text[2]) \in 1..12
       /\ Len(text[3]) \in {1, 2} /\ NumberOf(text[3]) \in 1..31
       /\ NumberOf(text[3]) <= DaysInMonth(NumberOf(text[1]), NumberOf(text[2]))
      THEN <<NumberOf(text[1]), NumberOf(text[2]), NumberOf(text[3])>>
      ELSE <<"ValueError">>

\* The parse of every date string a request may carry.
Parsed == [text \in DateStrings |-> strptime(text)]

ReportInit ==
    /\ schedules = <<>>
    /\ now = 0
    /\ resp = NoResp
    /\ authTokens = <<>>
    /\ utcnow = 0
    /\ requests = <<>>
    /\ rotated = {}
    /\ users = <<>>
    /\ profiles = <<>>
    /\ integrations = <<>>
    /\ reports = <<>>
    /\ out = NoResp
    /\ http = NoResp

\* reportId is <<>> for the empty string, reportUrl is <<>> for None.
GenerateReportResponse(success, reportId, message, reportUrl) ==
    [success |-> success, reportId |-> reportId, message |-> message,
     reportUrl |-> reportUrl]

\* The whole call: the two dates, the type, then the create, whose failure
\* (`fails`) the second try catches.
generate_report(userId, startDate, endDate, reportType, fails) ==
    LET args == <<userId, startDate, endDate, reportType>> IN
    /\ IF Parsed[startDate] = <<"ValueError">> \/ Parsed[endDate] = <<"ValueError">>
         THEN /\ reports' = reports
              /\ out' = Returned("generate_report", args,
                           GenerateReportResponse(FALSE, <<>>,
                              "Invalid date format. Please use YYYY-MM-DD.", <<>>))
         ELSE IF reportType \notin ReportTypeMembers
           THEN /\ reports' = reports
                /\ out' = Returned("generate_report", args,
                             GenerateReportResponse(FALSE, <<>>,
                                "Invalid report type provided.", <<>>))
           ELSE IF fails
             THEN /\ reports' = reports
                  /\ out' = Returned("generate_report", args,
                               GenerateReportResponse(FALSE, <<>>,
                                  "Error creating report: PersistenceError", <<>>))
             ELSE \E id \in ReportIds \ DOMAIN reports :
                    /\ reports' =
                         [i \in DOMAIN reports \cup {id} |->
                            IF i = id
                              THEN [userId |-> userId,
                                    content |-> <<startDate, endDate, userId>>,
                                    reportType |-> reportType]
                              ELSE reports[i]]
                    /\ out' = Returned("generate_report", args,
                                 GenerateReportResponse(TRUE, <<id>>,
                                    "Report generated successfully.",
                                    <<"http://example.com/reports/", id>>))
    /\ UNCHANGED <<schedVars, authVars, users, profiles, integrations, http>>

ReportNext ==
    \E s \in DateStrings, e \in DateStrings, t \in ReportTypeInputs, fails \in BOOLEAN :
       generate_report("u1", s, e, t, fails)

ReportSpec == ReportInit /\ [][ReportNext]_vars

\* ============================================================ HTTP surface
\* The Schedule tables the handlers are run against: at most two rows of one
\* user, each ending no earlier than it starts.
ServerRows ==
    {r \in ScheduleRow : r.userId = "u1" /\ r.startTime <= r.endTime}

ServerSchedules == UNION {[ids -> ServerRows] : ids \in SUBSET {1, 2}}

ServerInit ==
    /\ schedules \in ServerSchedules
    /\ now = 0
    /\ resp = NoResp
    /\ authTokens = <<>>
    /\ utcnow = 0
    /\ requests = <<>>
    /\ rotated = {}
    /\ users = <<>>
    /\ profiles = <<>>
    /\ integrations = <<>>
    /\ reports = <<>>
    /\ out = NoResp
    /\ http = NoResp

\* get_availability has no try: what a query raises leaves the function as it
\* is, and nothing is returned.
OnQueryFailure_swallows(userId, cur) ==
    Returned("get_availability", <<userId>>,
             IF cur = None THEN NoCurrentResponse(userId) ELSE NoMoreResponse(userId, cur))

OnQueryFailure(userId, cur) ==
    Raised("get_availability", <<userId>>, "PersistenceError", "")

\* The outcomes of get_availability(userId) when the gateway raises in its
\* first query (failsAt = 1), in its second (failsAt = 2) or in none (0).  The
\* second query runs only past a current schedule that is not free.
get_availability_outcomes(userId, failsAt) ==
    IF failsAt = 1
      THEN {OnQueryFailure(userId, None)}
      ELSE UNION {
             IF cur = None
               THEN {Returned("get_availability", <<userId>>, NoCurrentResponse(userId))}
             ELSE IF Free(schedules[cur])
               THEN {Returned("get_availability", <<userId>>, AvailableResponse(userId, cur))}
             ELSE IF failsAt = 2
               THEN {OnQueryFailure(userId, cur)}
             ELSE {Returned("get_availability", <<userId>>,
                            IF next # None
                              THEN UnavailableUntilResponse(userId, cur, next)
                              ELSE NoMoreResponse(userId, cur)) : next \in FindNext(userId)}
             : cur \in FindCurrent(userId)}

\* `return res`: the framework serialises the response model.
OkResponse(handler, res) ==
    [op |-> handler, status |-> 200, body |-> <<res>>, escaped |-> "none"]

\* The except branch of every handler: res = {"error": str(e)}, then
\* Response(content=jsonable_encoder(res), status_code=500, ...).
\* jsonable_encoder returns the dict, and Response.__init__ renders its content
\* with content.encode(charset) unless it is bytes or None: for a dict that
\* raises AttributeError inside the except branch, and no response is built.
ErrorResponse(handler, e) ==
    [op |-> handler, status |-> 0, body |-> <<>>, escaped |-> "AttributeError"]

\* try: res = await service(...); return res / except Exception as e: ...
Handle(handler, outcome) ==
    IF outcome.raised = "none"
      THEN OkResponse(handler, outcome.value)
      ELSE ErrorResponse(handler, outcome.raised)

api_get_get_availability(userId, failsAt) ==
    /\ \E outcome \in get_availability_outcomes(userId, failsAt) :
         /\ out' = outcome
         /\ http' = Handle("api_get_get_availability", outcome)
    /\ UNCHANGED <<schedules, now, resp, authVars, users, profiles, integrations, reports>>

\* The other handlers of server.py, each with the same try and except around
\* the call of its service.
Handlers ==
    {"api_post_create_user", "api_post_send_notification", "api_post_logout_user",
     "api_post_add_integration", "api_put_update_user",
     "api_put_update_notification_preferences", "api_get_get_user_profile",
     "api_delete_delete_schedule", "api_put_update_integration",
     "api_delete_remove_integration", "api_post_refresh_token",
     "api_post_generate_report", "api_post_create_schedule", "api_get_get_report",
     "api_post_update_availability", "api_put_update_schedule", "api_post_login_user",
     "api_get_get_schedule"}

api_handler(handler, raises) ==
    /\ out' = IF raises THEN Raised(handler, <<>>, "Exception", "")
                        ELSE Returned(handler, <<>>, <<"res">>)
    /\ http' = Handle(handler, out')
    /\ UNCHANGED <<schedules, now, resp, authVars, users, profiles, integrations, reports>>

ServerNext ==
    \/ \E u \in Users, failsAt \in {0, 1, 2} : api_get_get_availability(u, failsAt)
    \/ \E h \in Handlers, raises \in BOOLEAN : api_handler(h, raises)

ServerSpec == ServerInit /\ [][ServerNext]_vars

\* ========================================================= schedule writes
\* The start and end instants (in ticks) a request may carry: a block that
\* has ended, one that ends now, one that starts later.
Spans == {<<0, 0>>, <<0, 1>>, <<2, 2>>}

\* The Schedule table when the service starts: empty, or one row that starts
\* before it ends and has an Appointment linked.
ScheduleInit ==
    /\ schedules \in {<<>>} \cup
          {[i \in {1} |-> r] :
             r \in {x \in ScheduleRow : x.Appointment = 1 /\ x.startTime < x.endTime}}
    /\ now = 1
    /\ resp = NoResp
    /\ authTokens = <<>>
    /\ utcnow = 0
    /\ requests = <<>>
    /\ rotated = {}
    /\ CrudIdle

\* data={"startTime": ..., "endTime": ..., "title": ..., "description": ...,
\* "available": ...}: the columns update_schedule overwrites.
UpdatedSchedule(row, startTime, endTime, available) ==
    [row EXCEPT !.startTime = startTime, !.endTime = endTime, !.available = available]

\* update_schedule looks the row up and overwrites it with the arguments as
\* they are.
update_schedule(id, startTime, endTime, available) ==
    /\ IF id \in DOMAIN schedules
         THEN /\ schedules' = [schedules EXCEPT ![id] =
                                  UpdatedSchedule(@, startTime, endTime, available)]
              /\ resp' = [op |-> "update_schedule", success |-> TRUE,
                          message |-> "Schedule updated successfully."]
         ELSE /\ schedules' = schedules
              /\ resp' = [op |-> "update_schedule", success |-> FALSE,
                          message |-> "Schedule not found."]
    /\ UNCHANGED <<now, authVars, crudVars>>

\* where={"userId": professional_id, "endTime": {"gt": datetime.now()}}: the
\* rows update_many writes.  datetime.now() is the server's local time, taken
\* here to be the clock get_availability reads.
StillRunning(professional_id) ==
    {i \in DOMAIN schedules : /\ schedules[i].userId = professional_id
                              /\ schedules[i].endTime > now}

\* data={"available": new_availability}
update_availability(professional_id, new_availability) ==
    /\ schedules' =
          [i \in DOMAIN schedules |->
             IF i \in StillRunning(professional_id)
               THEN [schedules[i] EXCEPT !.available = new_availability]
               ELSE schedules[i]]
    /\ resp' = [op |-> "update_availability", professional_id |-> professional_id,
                success |-> TRUE, updated_availability |-> new_availability,
                message |-> "Professional's availability status updated successfully."]
    /\ UNCHANGED <<now, authVars, crudVars>>

ScheduleNext ==
    \/ \E span \in Spans, a \in BOOLEAN : create_schedule("u1", span[1], span[2], a)
    \/ \E id \in ScheduleIds, span \in Spans, a \in BOOLEAN :
          update_schedule(id, span[1], span[2], a)
    \/ \E u \in Users, a \in BOOLEAN : update_availability(u, a)
    \/ \E id \in ScheduleIds : delete_schedule(id, FALSE)
    \/ \E u \in Users : get_availability(u)

ScheduleSpec == ScheduleInit /\ [][ScheduleNext]_vars

\* ================================================== single-resource reads
\* The Report table when the service starts.
InitialReports ==
    UNION {[ids -> {[userId |-> "u1", content |-> <<LeapDay, LeapDay, "u1">>,
                     reportType |-> "Activity"]}] : ids \in SUBSET ReportIds}

ReadInit ==
    /\ schedules \in InitialSchedules
    /\ now = 0
    /\ resp = NoResp
    /\ authTokens = <<>>
    /\ utcnow = 0
    /\ requests = <<>>
    /\ rotated = {}
    /\ users \in InitialUsers
    /\ profiles \in InitialProfiles(users)
    /\ integrations = <<>>
    /\ reports \in InitialReports
    /\ out = NoResp
    /\ http = NoResp

\* raise ValueError(f"Schedule with ID {id} not found")
get_schedule(id) ==
    /\ IF id \notin DOMAIN schedules
         THEN out' = Raised("get_schedule", <<id>>, "ValueError",
                            "Schedule with ID {id} not found")
         ELSE out' = Returned("get_schedule", <<id>>,
                        [schedule_id |-> id, startTime |-> schedules[id].startTime,
                         endTime |-> schedules[id].endTime,
                         available |-> schedules[id].available,
                         user |-> schedules[id].userId,
                         appointments |-> schedules[id].Appointment])
    /\ UNCHANGED <<schedVars, authVars, users, profiles, integrations, reports, http>>

\* raise ValueError(f"Report with id {id} not found")
get_report(id) ==
    /\ IF id \notin DOMAIN reports
         THEN out' = Raised("get_report", <<id>>, "ValueError",
                            "Report with id {id} not found")
         ELSE out' = Returned("get_report", <<id>>,
                        [id |-> id, userId |-> reports[id].userId,
                         content |-> reports[id].content,
                         reportType |-> reports[id].reportType])
    /\ UNCHANGED <<schedVars, authVars, users, profiles, integrations, reports, http>>

\* raise ValueError("User not found.")
UserNotFound_empty(id) ==
    Returned("get_user_profile", <<id>>,
             [user_id |-> id, email |-> "", role |-> "", first_name |-> "",
              last_name |-> "", linked_schedules |-> {}])

UserNotFound(id) == Raised("get_user_profile", <<id>>, "ValueError", "User not found.")

get_user_profile(id) ==
    /\ IF id \notin DOMAIN users
         THEN out' = UserNotFound(id)
         ELSE out' = Returned("get_user_profile", <<id>>,
                        [user_id |-> id, email |-> users[id].email,
                         role |-> users[id].role,
                         first_name |-> IF id \in DOMAIN profiles
                                          THEN profiles[id].firstName ELSE "",
                         last_name |-> IF id \in DOMAIN profiles
                                         THEN profiles[id].lastName ELSE "",
                         linked_schedules |->
                            {i \in DOMAIN schedules : schedules[i].userId = id}])
    /\ UNCHANGED <<schedVars, authVars, users, profiles, integrations, reports, http>>

ReadNext ==
    \/ \E id \in ScheduleIds : get_schedule(id)
    \/ \E id \in ReportIds : get_report(id)
    \/ \E id \in Users : get_user_profile(id)

ReadSpec == ReadInit /\ [][ReadNext]_vars

\* ==================================================== logout in flight
\* logout_user as a request among the refresh_token requests: the handler is
\* called, and its delete_many reaches the table at its one await, where the
\* other requests may run.

\* history: the AuthToken row the token of a logout stands for when the
\* logout is called: the row a refresh in flight found under it, or the row
\* that holds it.
SessionOf(t) ==
    IF \E r \in Requests : requests[r].pc = "update" /\ requests[r].refresh_token = t
      THEN requests[CHOOSE r \in Requests :
                      requests[r].pc = "update" /\ requests[r].refresh_token = t].auth_token
      ELSE FindToken(t)

logout_user_call(p, token) ==
    /\ requests[p].pc = "idle"
    /\ \A q \in Requests : q < p => requests[q].pc # "idle"   \* numbered as they arrive
    /\ requests' = [requests EXCEPT ![p] =
          [@ EXCEPT !.pc = "delete", !.refresh_token = token,
                    !.auth_token = SessionOf(token)]]
    /\ UNCHANGED <<schedVars, authTokens, utcnow, rotated, crudVars>>

logout_user_delete(p) ==
    /\ requests[p].pc = "delete"
    /\ authTokens' = DeleteMany(authTokens, requests[p].refresh_token)
    /\ requests' = [requests EXCEPT ![p] = [@ EXCEPT !.pc = "done", !.result = "logged out"]]
    /\ resp' = [op |-> "logout_user", message |-> "User successfully logged out."]
    /\ UNCHANGED <<schedules, now, utcnow, rotated, crudVars>>

LogoutNext ==
    \/ \E p \in Requests, t \in TokenValues : refresh_token_find(p, t)
    \/ \E p \in Requests : refresh_token_update(p)
    \/ \E p \in Requests, t \in TokenValues : logout_user_call(p, t)
    \/ \E p \in Requests : logout_user_delete(p)
    \/ AuthTick

LogoutSpec == AuthInit /\ [][LogoutNext]_vars

\* =========================================================== notifications
MaxChannels == 3        \* the longest channel list a request carries

\* The channel names a request may carry: the three the service knows and two
\* it does not.
Channels == {"email", "sms", "in_app", "fax", "push"}

ChannelLists == UNION {[1..n -> Channels] : n \in 0..MaxChannels}

NotifyInit ==
    /\ schedules = <<>>
    /\ now = 0
    /\ resp = NoResp
    /\ authTokens = <<>>
    /\ utcnow = 0
    /\ requests = <<>>
    /\ rotated = {}
    /\ CrudIdle

\* the branch of the loop body that raises ValueError
Unsupported(channel) == ~(channel = "email" \/ channel = "sms" \/ channel = "in_app")

\* The loop over channels: failed_channels after the channels from index i on
\* have been tried, given the list failed collected before them.
RECURSIVE FailedChannels_stopsAtFirst(_, _, _)
FailedChannels_stopsAtFirst(channels, i, failed) ==
    IF i > Len(channels) THEN failed
    ELSE IF Unsupported(channels[i])
           THEN Append(failed, channels[i])
           ELSE FailedChannels_stopsAtFirst(channels, i + 1, failed)

RECURSIVE FailedChannels(_, _, _)
FailedChannels(channels, i, failed) ==
    IF i > Len(channels) THEN failed
    ELSE IF Unsupported(channels[i])
           THEN FailedChannels(channels, i + 1, Append(failed, channels[i]))
           ELSE FailedChannels(channels, i + 1, failed)

SendNotificationOutput(failed_channels) ==
    IF failed_channels # <<>>
      THEN [success |-> FALSE, failed_channels |-> failed_channels,
            error_message |-> "Some channels failed."]
      ELSE [success |-> TRUE, failed_channels |-> <<>>, error_message |-> Absent]

send_notification(recipient_id, message, channels) ==
    /\ out' = Returned("send_notification", <<recipient_id, message, channels>>,
                       SendNotificationOutput(FailedChannels(channels, 1, <<>>)))
    /\ UNCHANGED <<schedVars, authVars, users, profiles, integrations, reports, http>>

NotifyNext ==
    \E channels \in ChannelLists : send_notification("u1", "hello", channels)

NotifySpec == NotifyInit /\ [][NotifyNext]_vars

\* ------------------------------------------------------------- the claims
\* What a claim says of a response is stated over the rows themselves.
Answered == resp.op = "get_availability"

Mine(i) == i \in DOMAIN schedules /\ schedules[i].userId = resp.userId

Within(i) == schedules[i].startTime <= now /\ now <= schedules[i].endTime

StrictlyWithin(i) == schedules[i].startTime < now /\ now < schedules[i].endTime

Unoccupied(i) == schedules[i].available /\ schedules[i].Appointment = 0

Eligible(i) == Mine(i) /\ schedules[i].startTime > now /\ schedules[i].available

SearchedForward ==
    resp.message[1] \in {"Unavailable until", "No more available schedules today"}

\* C1: whenever the queried user owns a Schedule with startTime < now < endTime,
\* available and with no Appointment, get_availability answers isAvailable=true,
\* whatever other Schedules of that user contain now.
C1_FreeScheduleMeansAvailable ==
    Answered =>
      ((\E i \in DOMAIN schedules : Mine(i) /\ StrictlyWithin(i) /\ Unoccupied(i))
          => resp.isAvailable)

\* C2: whenever the queried user owns a Schedule containing now that has a
\* linked Appointment, get_availability answers isAvailable=false from the
\* forward search, never from the "Available" branch.
C2_OccupiedMeansUnavailable ==
    Answered =>
      ((\E i \in DOMAIN schedules :
           Mine(i) /\ Within(i) /\ schedules[i].Appointment >= 1)
          => (~resp.isAvailable /\ SearchedForward))

\* C3: get_availability answers isAvailable=true only if the user owns a
\* Schedule with startTime <= now <= endTime, available, with no Appointment.
C3_AvailableOnlyIfFreeSchedule ==
    Answered =>
      /\ resp.isAvailable \in BOOLEAN
      /\ resp.isAvailable =>
           \E i \in DOMAIN schedules : Mine(i) /\ Within(i) /\ Unoccupied(i)

C3_Witness ==
    /\ Answered
    /\ resp.isAvailable
    /\ \E i \in DOMAIN schedules : Mine(i) /\ ~Within(i)

\* C4: the lookup of the current Schedule is inclusive at both ends: a Schedule
\* of the user with startTime = now, or with endTime = now, is found (the answer
\* is never "No current schedules found"), it is the one found when no other
\* Schedule of the user contains now, and when it is the one found and it is
\* available and unoccupied the answer is isAvailable=true.
C4_InclusiveBounds ==
    Answered =>
      \A i \in DOMAIN schedules :
         (/\ Mine(i)
          /\ Within(i)
          /\ (schedules[i].startTime = now \/ schedules[i].endTime = now))
         => /\ resp.cur # None
            /\ resp.message # <<"No current schedules found">>
            /\ (\A j \in DOMAIN schedules : (Mine(j) /\ Within(j)) => j = i)
                  => resp.cur = i
            /\ (resp.cur = i /\ Unoccupied(i)) => resp.isAvailable

C4_Witness ==
    /\ Answered
    /\ resp.isAvailable
    /\ resp.cur # None
    /\ schedules[resp.cur].endTime = now
    /\ schedules[resp.cur].startTime < now
    /\ \E j \in DOMAIN schedules :
          /\ Mine(j)
          /\ schedules[j].startTime = now
          /\ schedules[j].endTime > now

\* C5: when no Schedule of the user contains now, the answer is isAvailable=false,
\* "No current schedules found", with no time until next availability, even if
\* the user owns a later available Schedule.
C5_NoCurrentSchedule ==
    Answered =>
      ((\A i \in DOMAIN schedules : Mine(i) => ~Within(i))
          => /\ ~resp.isAvailable
             /\ resp.message = <<"No current schedules found">>
             /\ resp.timeUntilNextAvailability = <<>>)

C5_Witness ==
    /\ Answered
    /\ \A i \in DOMAIN schedules : Mine(i) => ~Within(i)
    /\ \E i \in DOMAIN schedules : Eligible(i)
    /\ resp.message = <<"No current schedules found">>

\* C6: when the current Schedule is unavailable or occupied, the next Schedule
\* reported is one of least startTime among the user's Schedules with
\* startTime > now and available=true; no other Schedule is ever reported.
C6_NextIsEarliestEligible ==
    (Answered /\ resp.cur # None /\ ~Unoccupied(resp.cur)) =>
      /\ resp.next # None <=> (\E i \in DOMAIN schedules : Eligible(i))
      /\ resp.next # None =>
           /\ Eligible(resp.next)
           /\ \A j \in DOMAIN schedules :
                 Eligible(j) => schedules[resp.next].startTime <= schedules[j].startTime
           /\ resp.message =
                <<"Unavailable until",
                  (schedules[resp.next].startTime * SecondsPerTick) \div 60>>

C6_Witness ==
    /\ Answered
    /\ resp.next # None
    /\ \E j \in DOMAIN schedules :
          Eligible(j) /\ schedules[j].startTime > schedules[resp.next].startTime

\* C7: a reported timeUntilNextAvailability m is the whole minutes from now to
\* the start of the chosen next Schedule, cut and not rounded, and never
\* negative: 60*m <= seconds < 60*(m+1); one hour ahead gives 60.
C7_MinutesTruncated ==
    /\ MinutesUntil(3600) = 60
    /\ (Answered /\ resp.timeUntilNextAvailability # <<>>) =>
         /\ resp.next # None
         /\ LET m == resp.timeUntilNextAvailability[1]
                seconds == (schedules[resp.next].startTime - now) * SecondsPerTick
            IN  /\ m >= 0
                /\ 60 * m <= seconds
                /\ seconds < 60 * (m + 1)

C7_Witness ==
    /\ Answered
    /\ resp.timeUntilNextAvailability = <<0>>
    /\ (schedules[resp.next].startTime - now) * SecondsPerTick > 30

\* C8: when the current Schedule is unavailable or occupied and the user has no
\* Schedule with startTime > now and available=true, the answer is
\* isAvailable=false, with no time until next availability and the message that
\* no further availability was found.
C8_NoFurtherAvailability ==
    (/\ Answered
     /\ resp.cur # None
     /\ ~Unoccupied(resp.cur)
     /\ \A i \in DOMAIN schedules : ~Eligible(i))
    => /\ ~resp.isAvailable
       /\ resp.timeUntilNextAvailability = <<>>
       /\ resp.message = <<"No more available schedules today">>

C8_Witness ==
    /\ Answered
    /\ resp.cur # None
    /\ schedules[resp.cur].available
    /\ schedules[resp.cur].Appointment = 1
    /\ schedules[resp.cur].startTime = now
    /\ resp.message = <<"No more available schedules today">>

\* C9: once a refresh has succeeded with the token t, a later refresh that
\* presents t fails with the invalid-token error, however close in time the two
\* refreshes are (so a new token succeeds once, and never again).
C9_RotatedTokenIsRejected ==
    \A p \in DOMAIN requests :
       (requests[p].pc = "done" /\ requests[p].stale)
          => requests[p].result = "ValueError"

\* C10: of the refreshes presenting one token value at most one succeeds: a
\* request whose rotation write comes after another request has rotated the
\* record (the row no longer holds the token it presented) fails.
C10_OvertakenRefreshFails ==
    \A p \in DOMAIN requests :
       (requests[p].pc = "done" /\ requests[p].overtaken)
          => requests[p].result # "ok"

\* C11: a refresh that presents a token no AuthToken row holds, or one whose
\* row has its expiryDate in the past, fails with the invalid-token error,
\* issues no token and leaves the AuthToken table as it was.
C11_InvalidTokenRejected ==
    [][\A p \in Requests, t \in TokenValues :
         (/\ requests[p].pc = "idle" /\ requests'[p].refresh_token = t
          /\ refresh_token_find(p, t)
          /\ \/ \A i \in DOMAIN authTokens : authTokens[i].token # t
             \/ \E i \in DOMAIN authTokens :
                   authTokens[i].token = t /\ authTokens[i].expiryDate < utcnow)
         => /\ requests'[p].pc = "done"
            /\ requests'[p].result = "ValueError"
            /\ requests'[p].new_refresh_token = NoToken
            /\ authTokens' = authTokens]_vars

C11_Witness ==
    \E p \in DOMAIN requests :
       /\ requests[p].result = "ValueError"
       /\ \E i \in DOMAIN authTokens :
             /\ authTokens[i].token = requests[p].refresh_token
             /\ authTokens[i].expiryDate < utcnow

\* C12: a successful refresh replaces the record in place: the table keeps its
\* rows, the one row that held the presented token now holds the token returned
\* to the caller and an expiry 30 days after the call, and every other row is
\* as it was.
C12_RotationInPlace ==
    [][\A p \in Requests :
         (refresh_token_update(p) /\ requests'[p].result = "ok")
         => /\ DOMAIN authTokens' = DOMAIN authTokens
            /\ \E i \in DOMAIN authTokens :
                  /\ authTokens[i].token = requests[p].refresh_token
                  /\ authTokens'[i].token = requests'[p].new_refresh_token
                  /\ authTokens'[i].userId = authTokens[i].userId
                  /\ \E called \in 0..utcnow :
                        authTokens'[i].expiryDate = called + 30 * 86400
                  /\ \A j \in DOMAIN authTokens : j # i => authTokens'[j] = authTokens[j]]_vars

C12_Witness ==
    /\ Cardinality(DOMAIN authTokens) = 2
    /\ \E p \in DOMAIN requests, i \in DOMAIN authTokens :
          /\ requests[p].result = "ok"
          /\ authTokens[i].token = requests[p].new_refresh_token
          /\ authTokens[i].expiryDate = 30 * 86400 + 1
          /\ \E j \in DOMAIN authTokens : authTokens[j].token = SeedToken(j)

\* C13: logout_user(t) removes every AuthToken row whose token is t and no
\* other, and answers with the success message whether or not a row matched;
\* a second logout_user(t) changes nothing more and answers the same.
C13_LogoutIdempotent ==
    [][\A t \in TokenValues :
         (requests' = requests /\ utcnow' = utcnow /\ logout_user(t))
         => /\ \A i \in DOMAIN authTokens' : authTokens'[i].token # t
            /\ \A i \in DOMAIN authTokens :
                  authTokens[i].token # t
                     => (i \in DOMAIN authTokens' /\ authTokens'[i] = authTokens[i])
            /\ DOMAIN authTokens' \subseteq DOMAIN authTokens
            /\ ((\A i \in DOMAIN authTokens : authTokens[i].token # t)
                   => authTokens' = authTokens)
            /\ resp' = [op |-> "logout_user",
                        message |-> "User successfully logged out."]]_vars

C13_Witness ==
    /\ resp.op = "logout_user"
    /\ Cardinality(DOMAIN authTokens) = 1
    /\ \E i \in DOMAIN authTokens : i = 2 /\ authTokens[i].token = SeedToken(i)

\* The account an email names, and whether a password is the one it was
\* created with.
Known(email) == \E i \in DOMAIN users : users[i].email = email

Verifies(email, password) ==
    \E i \in DOMAIN users : /\ users[i].email = email
                            /\ users[i].password = bcrypt_hashpw(password, "salt")

\* C14: login_user succeeds exactly when the email names a user and the
\* password verifies; every other login fails, and a login that fails for an
\* unknown email fails with the same error kind and the same message as one
\* that fails for a wrong password, whatever the emails and passwords are.
C14_UniformLoginFailure ==
    [][\A e \in Emails, pw \in Passwords :
         login_user(e, pw) =>
            /\ (out'.raised = "none") <=> (Known(e) /\ Verifies(e, pw))
            /\ \A e2 \in Emails, pw2 \in Passwords :
                  (~(Known(e) /\ Verifies(e, pw)) /\ ~(Known(e2) /\ Verifies(e2, pw2)))
                     => /\ out'.raised = login_outcome(e2, pw2).raised
                        /\ out'.message = login_outcome(e2, pw2).message
                        /\ out'.value = login_outcome(e2, pw2).value]_vars

\* A login with a wrong password has failed while some email names no user.
C14_Witness ==
    /\ out.op = "login_user"
    /\ out.raised = "Exception"
    /\ Known(out.args[1])
    /\ ~Verifies(out.args[1], out.args[2])
    /\ \E e \in Emails : ~Known(e)

\* C15: update_user(id, email=None, firstName=x, lastName=None, role=None)
\* leaves the User table as it was, so the email and the role of every user,
\* and leaves every Profile's lastName as it was; no Profile row appears or
\* disappears, and no other user's Profile changes.
C15_OnlyFirstNameChanges ==
    [][\A id \in Users, x \in FirstNames :
         update_user(id, Absent, x, Absent, Absent) =>
            /\ users' = users
            /\ DOMAIN profiles' = DOMAIN profiles
            /\ \A i \in DOMAIN profiles :
                  /\ profiles'[i].lastName = profiles[i].lastName
                  /\ i # id => profiles'[i] = profiles[i]]_vars

\* Such a call has returned: the first name is the new one, the last name and
\* the User row are the ones the service started with.
C15_Witness ==
    /\ out.op = "update_user"
    /\ out.raised = "none"
    /\ out.args = <<"u1", Absent, "Zoe", Absent, Absent>>
    /\ "u1" \in DOMAIN profiles
    /\ profiles["u1"] = [firstName |-> "Zoe", lastName |-> "Lee"]
    /\ users["u1"].role = "Professional"

\* C16: a call of update_user for an existing user that returns has applied
\* every argument that is not None to the stored User or Profile row and left
\* the column of every None argument as it was, and the response echoes the
\* stored value of every argument that is not None.
C16_EveryProvidedFieldApplied ==
    [][\A id \in Users, e \in Emails \cup {Absent}, f \in FirstNames \cup {Absent},
          l \in LastNames \cup {Absent}, r \in NewRoles \cup {Absent} :
         (update_user(id, e, f, l, r) /\ id \in DOMAIN users /\ out'.raised = "none") =>
            /\ users'[id].email = IF e # Absent THEN e ELSE users[id].email
            /\ users'[id].role = IF r # Absent THEN r ELSE users[id].role
            /\ f # Absent => /\ id \in DOMAIN profiles'
                             /\ profiles'[id].firstName = f
                             /\ out'.value.firstName = profiles'[id].firstName
            /\ l # Absent => /\ id \in DOMAIN profiles'
                             /\ profiles'[id].lastName = l
                             /\ out'.value.lastName = profiles'[id].lastName
            /\ (f = Absent /\ id \in DOMAIN profiles) =>
                  profiles'[id].firstName = profiles[id].firstName
            /\ (l = Absent /\ id \in DOMAIN profiles) =>
                  profiles'[id].lastName = profiles[id].lastName
            /\ e # Absent => out'.value.email = users'[id].email
            /\ r # Absent => out'.value.role = users'[id].role]_vars

\* C17: delete_schedule(id) and remove_integration(id) for an id that no row
\* has, the gateway working, return rather than raise, the response reports
\* that nothing was found and not a deletion that succeeded, and the tables
\* are as they were.
C17_DeleteOfMissingRowReportsNotFound ==
    [][/\ \A id \in ScheduleIds :
            (delete_schedule(id, FALSE) /\ id \notin DOMAIN schedules) =>
               /\ out'.raised = "none"
               /\ out'.value.success = FALSE
               /\ out'.value.message = "Schedule not found"
               /\ schedules' = schedules
       /\ \A id \in IntegrationIds :
            (remove_integration(id, FALSE) /\ id \notin DOMAIN integrations) =>
               /\ out'.raised = "none"
               /\ out'.value.message # "Integration successfully removed."
               /\ integrations' = integrations]_vars

\* A date string names a date: a four-digit year, a month of the year and a
\* day of that month, written in digits in this order.  (A month or a day
\* written with one digit names a date as well.)
ValidDate(text) ==
    /\ Len(text) = 3
    /\ \A k \in 1..3 : AllDigits(text[k]) /\ text[k] # <<>>
    /\ Len(text[1]) = 4 /\ NumberOf(text[1]) >= 1
    /\ Len(text[2]) <= 2 /\ NumberOf(text[2]) \in 1..12
    /\ Len(text[3]) <= 2
    /\ \E day \in 1..31 :
          /\ day = NumberOf(text[3])
          /\ day <= DaysInMonth(NumberOf(text[1]), NumberOf(text[2]))

\* The date strings of the requests that name a date.
ValidDates == {text \in DateStrings : ValidDate(text)}

C19_HandlersAreTotal ==
    http.op # "none" => (http.escaped = "none" /\ http.status \in {200, 500})

\* C20: when a query of get_availability fails the failure reaches the caller
\* as it was raised: the first query failing, nothing is returned; the second
\* failing, nothing is returned unless the call ended before that query, on
\* "Available" or on "No current schedules found"; the Schedule table is as
\* it was.
C20_QueryFailurePropagates ==
    [][\A u \in Users :
         /\ api_get_get_availability(u, 1) =>
               /\ out'.raised = "PersistenceError"
               /\ out'.value = <<>>
         /\ api_get_get_availability(u, 2) =>
               /\ \/ /\ out'.raised = "PersistenceError"
                     /\ out'.value = <<>>
                  \/ /\ out'.raised = "none"
                     /\ \/ out'.value.isAvailable
                        \/ out'.value.message = <<"No current schedules found">>
               /\ (\A i \in CurrentSchedules(u) : ~Free(schedules[i]))
                     /\ CurrentSchedules(u) # {}
                     => out'.raised = "PersistenceError"
         /\ (api_get_get_availability(u, 1) \/ api_get_get_availability(u, 2))
               => schedules' = schedules]_vars

\* The forward search has failed past an occupied current schedule while a
\* later available schedule was there to be found.
C20_Witness ==
    /\ out.op = "get_availability"
    /\ out.raised = "PersistenceError"
    /\ \E i \in CurrentSchedules(out.args[1]) : ~Free(schedules[i])
    /\ NextCandidates(out.args[1]) # {}

\* C21: every Schedule row of the table starts before it ends, whatever
\* create_schedule, update_schedule, update_availability and delete_schedule
\* calls were made.
C21_StartBeforeEnd ==
    \A i \in DOMAIN schedules : schedules[i].startTime < schedules[i].endTime

\* C22: get_availability only reads: on every branch the Schedule rows with
\* their Appointments, and every other table, are after the call what they
\* were before it.
C22_GetAvailabilityOnlyReads ==
    [][\A u \in Users :
         get_availability(u) =>
            /\ schedules' = schedules
            /\ authTokens' = authTokens
            /\ users' = users /\ profiles' = profiles
            /\ integrations' = integrations /\ reports' = reports]_vars

\* A query has searched forward past a current schedule and found the next one.
C22_Witness ==
    /\ Answered
    /\ resp.cur # None
    /\ resp.next # None
    /\ Cardinality(DOMAIN schedules) >= 2

\* What the caller of get_availability sees of a response.
Visible(r) ==
    <<r.userId, r.isAvailable, r.message, r.timeUntilNextAvailability>>

\* C23: the result of get_availability(u) is determined by the Schedule table
\* and by now: in every reachable state the queries of one user have one
\* possible result.
C23_ResultDeterminedByStore ==
    \A u \in Users :
       \A o1, o2 \in get_availability_outcomes(u, 0) : Visible(o1.value) = Visible(o2.value)

\* C25: a query that follows update_availability(u, false) with no request
\* in between answers isAvailable = false; and update_availability(u, a)
\* sets the flag of the Schedules of u that end after now to a and changes
\* nothing else in the table.
C25_UnavailableAfterUpdate ==
    [][/\ \A u \in Users :
            (/\ resp.op = "update_availability"
             /\ resp.professional_id = u /\ resp.success /\ ~resp.updated_availability
             /\ get_availability(u))
              => ~resp'.isAvailable
       /\ \A u \in Users, a \in BOOLEAN :
            update_availability(u, a) =>
               /\ DOMAIN schedules' = DOMAIN schedules
               /\ \A i \in DOMAIN schedules :
                     IF schedules[i].userId = u /\ schedules[i].endTime > now
                       THEN schedules'[i] = [schedules[i] EXCEPT !.available = a]
                       ELSE schedules'[i] = schedules[i]]_vars

\* C24: get_schedule(id), get_report(id) and get_user_profile(id) for an id
\* that no row has raise an error and return no response object, and every
\* read leaves the tables as they were.
C24_ReadOfMissingRowRaises ==
    [][/\ \A id \in ScheduleIds :
            get_schedule(id) =>
               /\ id \notin DOMAIN schedules =>
                     (out'.raised = "ValueError" /\ out'.value = <<>>)
               /\ schedules' = schedules /\ users' = users /\ reports' = reports
       /\ \A id \in ReportIds :
            get_report(id) =>
               /\ id \notin DOMAIN reports =>
                     (out'.raised = "ValueError" /\ out'.value = <<>>)
               /\ schedules' = schedules /\ users' = users /\ reports' = reports
       /\ \A id \in Users :
            get_user_profile(id) =>
               /\ id \notin DOMAIN users =>
                     (out'.raised = "ValueError" /\ out'.value = <<>>)
               /\ schedules' = schedules /\ users' = users /\ reports' = reports
               /\ profiles' = profiles]_vars

\* The profile of a user that does not exist was asked for while another
\* user does.
C24_Witness ==
    /\ out.op = "get_user_profile"
    /\ out.raised = "ValueError"
    /\ out.args[1] \notin DOMAIN users
    /\ users # <<>>

\* A logout that has completed, no refresh of its token being in flight any
\* more, has left no row of the session it ended.
SessionsEnded ==
    \A q \in DOMAIN requests :
       (/\ requests[q].result = "logged out"
        /\ requests[q].auth_token # None
        /\ \A r \in DOMAIN requests :
              requests[r].refresh_token = requests[q].refresh_token
                 => requests[r].pc # "update")
          => requests[q].auth_token \notin DOMAIN authTokens

\* C26: once a logout of the token t has completed, a refresh that presents t
\* while no row holds t fails with the invalid-token error; and a logout that
\* runs while a refresh of t is in flight leaves no row of that session in
\* the table once both have completed.
C26_LogoutEndsSession ==
    [][/\ \A p \in Requests, t \in TokenValues :
            (/\ requests[p].pc = "idle" /\ requests'[p].refresh_token = t
             /\ refresh_token_find(p, t)
             /\ \E q \in Requests : /\ requests[q].result = "logged out"
                                    /\ requests[q].refresh_token = t
             /\ \A i \in DOMAIN authTokens : authTokens[i].token # t)
              => requests'[p].result = "ValueError"
       /\ SessionsEnded']_vars

\* C27: send_notification answers success exactly when failed_channels is
\* empty; failed_channels is the requested channels other than "email", "sms"
\* and "in_app", in the order of the request and as often as they were
\* requested, those after an unsupported one included; the empty list of
\* channels answers success.
C27_FailedChannelsAreTheUnsupported ==
    out.op = "send_notification" =>
       LET channels == out.args[3]
           known == {"email", "sms", "in_app"}
       IN /\ out.raised = "none"
          /\ out.value.success <=> (out.value.failed_channels = <<>>)
          /\ out.value.failed_channels = SelectSeq(channels, LAMBDA c : c \notin known)
          /\ channels = <<>> => out.value.success

C27_Witness ==
    /\ out.op = "send_notification"
    /\ out.args[3] = <<"fax", "email", "fax">>
    /\ out.value.failed_channels = <<"fax", "fax">>
    /\ ~out.value.success

====
